---------------------------- MODULE Spec2Model ----------------------------
(***************************************************************************)
(* A model of the Directory Structure Agent: the orchestrator              *)
(* DirectoryStructureAgent.suggest_structure (agent.py), the services it   *)
(* calls (services.py) and the pure helpers (utils.py).                    *)
(*                                                                         *)
(* JSON values are tagged records [k, v]: k is the Python type the value   *)
(* has after json.loads ("obj" dict, "list", "str", "num", "null"), v its  *)
(* content; a dict is a function from its keys to JSON values.             *)
(* Text that the code inspects character by character (descriptions and    *)
(* tech-stack entries in the cache key) is a sequence of ASCII codes; the  *)
(* raw LLM response is a sequence of lexical tokens.                       *)
(***************************************************************************)
EXTENDS Integers, Sequences, FiniteSets, TLC

VARIABLES
    cache,      \* TinyDB table 'structures': the sequence of inserted records
    calls,      \* per in-flight call of suggest_structure: its locals and position
    clock,      \* datetime.now(), a logical clock
    started,    \* number of calls of suggest_structure made so far
    returned,   \* the requests whose call has returned, each with its success
    last,       \* the call that returned last: its arguments, locals and result
    kreq,       \* make_cache_key harness: the request as first given
    kvar,       \* make_cache_key harness: a respelling of the same request
    kkeys,      \* make_cache_key harness: the keys of kreq and kvar
    vcand,      \* validate_structure harness: the candidate
    vres,       \* validate_structure harness: the outcome
    pin,        \* apply_preferences harness: the structure and preferences
    pout,       \* apply_preferences harness: results of the 1st and 2nd application
    tin,        \* structure_to_tree harness: the structure
    tout,       \* structure_to_tree harness: the rendered lines
    rin,        \* find_similar_repos harness: scores per catalog entry, top_k
    rout,       \* find_similar_repos harness: the returned catalog indices
    prefs_text, \* parse_preferences harness: the text given
    pprefs      \* parse_preferences harness: the ProjectPreferences returned

harnessVars == <<kreq, kvar, kkeys, vcand, vres, pin, pout, tin, tout, rin, rout,
                 prefs_text, pprefs>>
orchVars == <<cache, calls, clock, started, returned, last>>
keyVars  == <<kreq, kvar, kkeys>>
valVars  == <<vcand, vres>>
prefVars == <<pin, pout>>
treeVars == <<tin, tout>>
rankVars == <<rin, rout>>
textVars == <<prefs_text, pprefs>>
vars == <<cache, calls, clock, started, returned, last, kreq, kvar, kkeys,
          vcand, vres, pin, pout, tin, tout, rin, rout, prefs_text, pprefs>>

-----------------------------------------------------------------------------
(* JSON values, as json.loads builds them *)

JStr(s)  == [k |-> "str",  v |-> s]
JNum(n)  == [k |-> "num",  v |-> n]
JList(q) == [k |-> "list", v |-> q]
JObj(f)  == [k |-> "obj",  v |-> f]
JNull    == [k |-> "null", v |-> 0]

EmptyDict == <<>>
Put(f, key, val) ==
    [x \in DOMAIN f \cup {key} |-> IF x = key THEN val ELSE f[x]]

\* dict.get(key) and dict.get(key, default)
GetOr(item, key, default) ==
    IF key \in DOMAIN item.v THEN item.v[key] ELSE default
Get(item, key) == GetOr(item, key, JNull)

\* Python truthiness of a JSON value (used by `if not structure`)
Truthy(x) ==
    CASE x.k = "obj"  -> DOMAIN x.v # {}
      [] x.k = "list" -> Len(x.v) > 0
      [] x.k = "str"  -> x.v # ""
      [] x.k = "num"  -> x.v # 0
      [] OTHER        -> FALSE

FileNode(n)        == JObj([type |-> JStr("file"), name |-> JStr(n)])
FolderNode(n, ch)  == JObj([type |-> JStr("folder"), name |-> JStr(n),
                            children |-> JList(ch)])
Structure(n, tops) == JObj([name |-> JStr(n), structure |-> JList(tops)])

-----------------------------------------------------------------------------
(* ValidationService.validate_structure *)

\* the names collected by the loop over structure["structure"]
FileNames(items) ==
    { GetOr(items[i], "name", JStr("")) :
        i \in { j \in 1..Len(items) : Get(items[j], "type") = JStr("file") } }

RequiredFiles == {"README.md", ".gitignore"}

\* a faulty variant, which the property must tell apart: the type of the entry is not looked at
validate_structure_AnyType(structure) ==
    IF structure.k # "obj" THEN "False"
    ELSE IF ~("name" \in DOMAIN structure.v /\ "structure" \in DOMAIN structure.v)
    THEN "False"
    ELSE IF structure.v["structure"].k # "list" THEN "False"
    ELSE LET items == structure.v["structure"].v IN
         IF \E i \in 1..Len(items) : items[i].k # "obj" THEN "AttributeError"
         ELSE IF \A r \in RequiredFiles :
                    \E i \in 1..Len(items) : GetOr(items[i], "name", JStr("")) = JStr(r)
         THEN "True" ELSE "False"

\* "True", "False", or "AttributeError" when item.get is called on an entry
\* that is not a dict (the loop calls it on every entry before any check)
validate_structure(structure) ==
    IF structure.k # "obj" THEN "False"
    ELSE IF ~("name" \in DOMAIN structure.v /\ "structure" \in DOMAIN structure.v)
    THEN "False"
    ELSE IF structure.v["structure"].k # "list" THEN "False"
    ELSE LET items == structure.v["structure"].v IN
         IF \E i \in 1..Len(items) : items[i].k # "obj" THEN "AttributeError"
         ELSE IF \A r \in RequiredFiles : JStr(r) \in FileNames(items)
         THEN "True" ELSE "False"

-----------------------------------------------------------------------------
(* ProjectPreferences (models.py) and utils.apply_preferences *)

\* Optional[ProjectPreferences]: None, or the dataclass instance
NoPrefs == [some |-> FALSE]
Prefs(docs, tests, docker, ci_cd, folders, framework) ==
    [some |-> TRUE, include_docs |-> docs, include_tests |-> tests,
     include_docker |-> docker, include_ci_cd |-> ci_cd,
     custom_folders |-> folders, framework_specific |-> framework]

\* any(item.get("name") == n for item in structure_list)
HasName(structure_list, n) ==
    \E i \in 1..Len(structure_list) : Get(structure_list[i], "name") = JStr(n)

\* a faulty variant, which the property must tell apart: the node is appended whether or not the name is there
AppendIfAbsent_Always(structure_list, n, node) == Append(structure_list, node)

\* a faulty variant, which the property must tell apart: the node is put in front of the existing entries
AppendIfAbsent_Front(structure_list, n, node) ==
    IF HasName(structure_list, n) THEN structure_list
    ELSE <<node>> \o structure_list

\* if not any(...): structure_list.append(node)
AppendIfAbsent(structure_list, n, node) ==
    IF HasName(structure_list, n) THEN structure_list
    ELSE Append(structure_list, node)

\* for custom_folder in prefs.custom_folders: ...
RECURSIVE AddCustomFolders(_, _)
AddCustomFolders(structure_list, folders) ==
    IF folders = <<>> THEN structure_list
    ELSE AddCustomFolders(
            AppendIfAbsent(structure_list, Head(folders),
                           FolderNode(Head(folders), <<>>)),
            Tail(folders))

docker_files == <<"Dockerfile", "docker-compose.yml", ".dockerignore">>

\* for docker_file in docker_files: ...
RECURSIVE AddFiles(_, _)
AddFiles(structure_list, files) ==
    IF files = <<>> THEN structure_list
    ELSE AddFiles(AppendIfAbsent(structure_list, Head(files), FileNode(Head(files))),
                  Tail(files))

GithubNode ==
    FolderNode(".github", <<FolderNode("workflows", <<FileNode("ci.yml")>>)>>)

\* structure is a dict whose "structure" is a list of dicts (what
\* validate_structure has accepted); the list is extended in place and the
\* same dict is returned
apply_preferences(structure, prefs) ==
    IF ~prefs.some THEN structure
    ELSE LET l0 == structure.v["structure"].v
             l1 == AddCustomFolders(l0, prefs.custom_folders)
             l2 == IF prefs.include_docker THEN AddFiles(l1, docker_files) ELSE l1
             l3 == IF prefs.include_ci_cd
                   THEN AppendIfAbsent(l2, ".github", GithubNode) ELSE l2
         IN  JObj(Put(structure.v, "structure", JList(l3)))

-----------------------------------------------------------------------------
(* utils.structure_to_tree: the result is the list of lines that           *)
(* "\n".join puts together, each line the sequence of the pieces           *)
(* concatenated into it. The box-drawing pieces are written in ASCII:      *)
(* "|-- " for U+251C U+2500 U+2500 SPACE, "+-- " for U+2514 U+2500 U+2500  *)
(* SPACE, "|   " for U+2502 and three spaces.                              *)

\* is_last = i == len(items) - 1   (i counted from 1 here)
IsLast(i, n) == i = n

\* a faulty variant, which the property must tell apart: the two indentations are swapped
NextIndent_Swapped(current_indent, is_last) ==
    Append(current_indent, IF is_last THEN "|   " ELSE "    ")

\* next_indent = current_indent + ("    " if is_last else "|   ")
NextIndent(current_indent, is_last) ==
    Append(current_indent, IF is_last THEN "    " ELSE "|   ")

RECURSIVE BuildTreeFrom(_, _, _)
\* the loop of _build_tree from entry i on
BuildTreeFrom(items, i, current_indent) ==
    IF i > Len(items) THEN <<>>
    ELSE LET item    == items[i]
             is_last == IsLast(i, Len(items))
             prefix  == IF is_last THEN "+-- " ELSE "|-- "
             name    == GetOr(item, "name", JStr("unnamed")).v
             own     == IF Get(item, "type") = JStr("folder")
                        THEN <<current_indent \o <<prefix, name, "/">>>>
                        ELSE <<current_indent \o <<prefix, name>>>>
             below   == IF /\ Get(item, "type") = JStr("folder")
                           /\ "children" \in DOMAIN item.v
                           /\ Truthy(item.v["children"])
                        THEN BuildTreeFrom(item.v["children"].v, 1,
                                           NextIndent(current_indent, is_last))
                        ELSE <<>>
         IN  own \o below \o BuildTreeFrom(items, i + 1, current_indent)

_build_tree(items, current_indent) == BuildTreeFrom(items, 1, current_indent)

\* structure: None (JNull) or a dict that, when not empty, has "name"
structure_to_tree(structure) ==
    IF ~Truthy(structure) THEN << <<"Invalid structure">> >>
    ELSE << <<structure.v["name"].v, "/">> >>
         \o (IF "structure" \in DOMAIN structure.v
             THEN _build_tree(structure.v["structure"].v, <<>>)
             ELSE <<>>)

-----------------------------------------------------------------------------
(* CacheService.make_cache_key. A str is a sequence of ASCII codes.        *)

Whitespace == {9, 10, 11, 12, 13, 32}

\* str.lower() on ASCII: A-Z (65..90) to a-z
LowerChar(c) == IF c \in 65..90 THEN c + 32 ELSE c
lower(s) == [i \in 1..Len(s) |-> LowerChar(s[i])]

\* str.strip(): leading and trailing whitespace removed
strip(s) ==
    LET keep == { i \in 1..Len(s) : s[i] \notin Whitespace } IN
    IF keep = {} THEN <<>>
    ELSE LET a == CHOOSE i \in keep : \A j \in keep : i <= j
             b == CHOOSE i \in keep : \A j \in keep : j <= i
         IN  SubSeq(s, a, b)

\* Python's order on str: by code point, a proper prefix first
StrLeq(a, b) ==
    \/ \E n \in 1..Len(a) :
          /\ n <= Len(b)
          /\ \A i \in 1..(n - 1) : a[i] = b[i]
          /\ a[n] < b[n]
    \/ /\ Len(a) <= Len(b)
       /\ \A i \in 1..Len(a) : a[i] = b[i]

\* one element put into an ascending list, after the elements equal to it
InsertSorted(x, list) ==
    LET before == { i \in 1..Len(list) : StrLeq(list[i], x) }
        n      == Cardinality(before)
    IN  SubSeq(list, 1, n) \o <<x>> \o SubSeq(list, n + 1, Len(list))

RECURSIVE SortFrom(_, _, _)
SortFrom(list, i, acc) ==
    IF i > Len(list) THEN acc
    ELSE SortFrom(list, i + 1, InsertSorted(list[i], acc))

\* a faulty variant, which the property must tell apart: the list is left in the order given
sorted_Unsorted(list) == list

\* sorted(list) of a list of str
sorted(list) == SortFrom(list, 1, <<>>)

\* the tech-stack entries as the key holds them
CanonTech(tech_stack) ==
    sorted([i \in 1..Len(tech_stack) |-> strip(lower(tech_stack[i]))])

\* prefs.__dict__ if prefs else None, then `prefs or {}`
PrefsDict(prefs) ==
    IF prefs.some
    THEN [d |-> "dict",
          include_docs |-> prefs.include_docs,
          include_tests |-> prefs.include_tests,
          include_docker |-> prefs.include_docker,
          include_ci_cd |-> prefs.include_ci_cd,
          custom_folders |-> prefs.custom_folders,
          framework_specific |-> prefs.framework_specific]
    ELSE [d |-> "empty"]

\* The key is the MD5 digest of json.dumps(cache_data, sort_keys=True).
\* Both are functions of cache_data alone, and the key stands here as
\* cache_data itself: two keys are equal exactly when the serialised data
\* are (MD5 collisions aside).
make_cache_key(project_desc, tech_stack, prefs) ==
    [project_desc |-> strip(lower(project_desc)),
     tech_stack   |-> CanonTech(tech_stack),
     prefs        |-> PrefsDict(prefs)]

-----------------------------------------------------------------------------
(* utils.parse_preferences. A str is a sequence of ASCII codes.            *)

\* s.startswith(prefix)
startswith(s, prefix) ==
    Len(prefix) <= Len(s) /\ SubSeq(s, 1, Len(prefix)) = prefix

\* needle in s
contains(s, needle) ==
    \E i \in 1..(Len(s) - Len(needle) + 1) :
        SubSeq(s, i, i + Len(needle) - 1) = needle

\* s.split(sep): the pieces between the separators, empty pieces kept
RECURSIVE SplitFrom(_, _, _, _, _)
SplitFrom(s, sep, i, acc, cur) ==
    IF i > Len(s) THEN Append(acc, cur)
    ELSE IF s[i] = sep THEN SplitFrom(s, sep, i + 1, Append(acc, cur), <<>>)
    ELSE SplitFrom(s, sep, i + 1, acc, Append(cur, s[i]))
split(s, sep) == SplitFrom(s, sep, 1, <<>>, <<>>)

\* s.split(sep, 1)[1]: what follows the first separator
split_1(s, sep) ==
    LET at == { i \in 1..Len(s) : s[i] = sep }
        k  == CHOOSE i \in at : \A j \in at : i <= j
    IN  SubSeq(s, k + 1, Len(s))

NewLine == 10
Colon == 58
folder_prefix == <<102, 111, 108, 100, 101, 114, 58>>  \* 'folder:'
custom_prefix == <<99, 117, 115, 116, 111, 109, 58>>   \* 'custom:'
kw_docs == <<100, 111, 99, 115>>                     \* "docs"
kw_documentation ==
    <<100, 111, 99, 117, 109, 101, 110, 116, 97, 116, 105, 111, 110>>  \* "documentation"
kw_test == <<116, 101, 115, 116>>                     \* "test"
kw_docker == <<100, 111, 99, 107, 101, 114>>           \* "docker"
kw_ci == <<99, 105>>                                 \* "ci"
kw_github_actions ==
    <<103, 105, 116, 104, 117, 98, 32, 97, 99, 116, 105, 111, 110, 115>>  \* "github actions"

\* ProjectPreferences(): the defaults of the dataclass
DefaultPrefs == Prefs(TRUE, TRUE, FALSE, FALSE, <<>>, TRUE)

\* a faulty variant, which the property must tell apart: lines that start
\* with 'custom:' are passed over
IsFolderLine_FolderOnly(line) == startswith(strip(line), folder_prefix)

\* line.strip().startswith('folder:') or line.strip().startswith('custom:')
IsFolderLine(line) ==
    \/ startswith(strip(line), folder_prefix)
    \/ startswith(strip(line), custom_prefix)

\* the loop over the lines: custom_folders after lines i.. are read
RECURSIVE CustomFoldersFrom(_, _, _)
CustomFoldersFrom(lines, i, custom_folders) ==
    IF i > Len(lines) THEN custom_folders
    ELSE IF IsFolderLine(lines[i])
    THEN LET folder_name == strip(split_1(lines[i], Colon)) IN
         CustomFoldersFrom(lines, i + 1,
                           IF folder_name # <<>>
                           THEN Append(custom_folders, folder_name)
                           ELSE custom_folders)
    ELSE CustomFoldersFrom(lines, i + 1, custom_folders)

parse_preferences(text) ==
    IF strip(text) = <<>> THEN DefaultPrefs
    ELSE LET prefs_lower == lower(text) IN
         Prefs(contains(prefs_lower, kw_docs) \/ contains(prefs_lower, kw_documentation),
               contains(prefs_lower, kw_test),
               contains(prefs_lower, kw_docker),
               contains(prefs_lower, kw_ci) \/ contains(prefs_lower, kw_github_actions),
               CustomFoldersFrom(split(text, NewLine), 1, <<>>),
               TRUE)

-----------------------------------------------------------------------------
(* SimilarityService.find_similar_repos. The embedding model is outside    *)
(* the repository: what it contributes is the similarity of each catalog   *)
(* entry, or an exception. A repo is its index in example_repos.           *)

\* a faulty variant, which the property must tell apart: an ascending sort, then reversed (equal scores swap places)
InsertDesc_Reversed(x, list) ==
    LET before == { i \in 1..Len(list) : list[i].similarity > x.similarity }
        n      == Cardinality(before)
    IN  SubSeq(list, 1, n) \o <<x>> \o SubSeq(list, n + 1, Len(list))

\* one pair put into a list that descends by score, after the pairs of
\* equal score: list.sort(key=..., reverse=True) is stable
InsertDesc(x, list) ==
    LET before == { i \in 1..Len(list) : list[i].similarity >= x.similarity }
        n      == Cardinality(before)
    IN  SubSeq(list, 1, n) \o <<x>> \o SubSeq(list, n + 1, Len(list))

RECURSIVE SortDescFrom(_, _, _)
SortDescFrom(list, i, acc) ==
    IF i > Len(list) THEN acc
    ELSE SortDescFrom(list, i + 1, InsertDesc(list[i], acc))

\* similarities.sort(key=lambda x: x[0], reverse=True)
sort_reverse(similarities) == SortDescFrom(similarities, 1, <<>>)

\* sentence_model: TRUE when the model was loaded in __init__;
\* scores: the similarity computed for each repo, in catalog order;
\* raises: an exception while encoding or scoring
find_similar_repos(sentence_model, scores, raises, top_k) ==
    IF ~sentence_model THEN <<>>
    ELSE IF raises THEN <<>>
    ELSE LET similarities ==
                 [i \in 1..Len(scores) |-> [similarity |-> scores[i], repo |-> i]]
             ranked == sort_reverse(similarities)
             n      == IF top_k < Len(ranked) THEN top_k ELSE Len(ranked)
         IN  [i \in 1..n |-> ranked[i].repo]

top_k_default == 2

-----------------------------------------------------------------------------
(* utils.parse_llm_output. The raw response is a sequence of tokens        *)
(* [t, s]: t = "p" one of the characters { } [ ] : ,  t = "ws" whitespace, *)
(* t = "str" a JSON string literal with content s, t = "num" the number 0, *)
(* t = "null", t = "word" any other text (prose).                          *)

P(c)    == [t |-> "p", s |-> c]
Ws(c)   == [t |-> "ws", s |-> c]
Str(c)  == [t |-> "str", s |-> c]
Word(c) == [t |-> "word", s |-> c]
Zero    == [t |-> "num", s |-> "0"]
Null    == [t |-> "null", s |-> "null"]

LBrace == P("{")
RBrace == P("}")

\* a faulty variant, which the property must tell apart: the non-greedy r'\{.*?\}', which stops at the first '}'
re_search_NonGreedy(text) ==
    LET starts == { i \in 1..Len(text) :
                      /\ text[i] = LBrace
                      /\ \E j \in (i + 1)..Len(text) : text[j] = RBrace }
    IN  IF starts = {} THEN [found |-> FALSE, from |-> 0, to |-> 0]
        ELSE LET i    == CHOOSE a \in starts : \A b \in starts : a <= b
                 ends == { j \in (i + 1)..Len(text) : text[j] = RBrace }
             IN  [found |-> TRUE, from |-> i,
                  to |-> CHOOSE a \in ends : \A b \in ends : a <= b]

\* re.search(r'\{.*\}', text, re.DOTALL): the leftmost position where the
\* pattern matches, and from there the longest match
re_search(text) ==
    LET starts == { i \in 1..Len(text) :
                      /\ text[i] = LBrace
                      /\ \E j \in (i + 1)..Len(text) : text[j] = RBrace }
    IN  IF starts = {} THEN [found |-> FALSE, from |-> 0, to |-> 0]
        ELSE LET i    == CHOOSE a \in starts : \A b \in starts : a <= b
                 ends == { j \in (i + 1)..Len(text) : text[j] = RBrace }
             IN  [found |-> TRUE, from |-> i,
                  to |-> CHOOSE a \in ends : \A b \in ends : b <= a]

\* str.strip() on a token sequence
strip_text(text) ==
    LET keep == { i \in 1..Len(text) : text[i].t # "ws" } IN
    IF keep = {} THEN <<>>
    ELSE LET a == CHOOSE i \in keep : \A j \in keep : i <= j
             b == CHOOSE i \in keep : \A j \in keep : j <= i
         IN  SubSeq(text, a, b)

(* json.loads (the standard library's decoder): a value is an object, an   *)
(* array, a string, a number or null; whitespace may surround any token;   *)
(* anything after the value but whitespace is an error ("Extra data").     *)
(* Each parser returns [ok, val, next]: next is the position after what    *)
(* it read.                                                                *)
PFail == [ok |-> FALSE, val |-> JNull, next |-> 0]
POk(v, n) == [ok |-> TRUE, val |-> v, next |-> n]

RECURSIVE SkipWs(_, _)
SkipWs(text, i) ==
    IF i <= Len(text) /\ text[i].t = "ws" THEN SkipWs(text, i + 1) ELSE i

At(text, i, tok) == i <= Len(text) /\ text[i] = tok
IsStrAt(text, i) == i <= Len(text) /\ text[i].t = "str"

RECURSIVE ParseValue(_, _)
RECURSIVE ParseMembers(_, _, _)
RECURSIVE ParseElements(_, _, _)

\* after '{' or ',': "key" : value, then ',' or '}'
ParseMembers(text, i, acc) ==
    LET a == SkipWs(text, i) IN
    IF ~IsStrAt(text, a) THEN PFail
    ELSE LET b == SkipWs(text, a + 1) IN
         IF ~At(text, b, P(":")) THEN PFail
         ELSE LET r == ParseValue(text, b + 1) IN
              IF ~r.ok THEN PFail
              ELSE LET c   == SkipWs(text, r.next)
                       obj == Put(acc, text[a].s, r.val)
                   IN  IF At(text, c, RBrace) THEN POk(JObj(obj), c + 1)
                       ELSE IF At(text, c, P(",")) THEN ParseMembers(text, c + 1, obj)
                       ELSE PFail

\* after '[' or ',': value, then ',' or ']'
ParseElements(text, i, acc) ==
    LET r == ParseValue(text, i) IN
    IF ~r.ok THEN PFail
    ELSE LET c    == SkipWs(text, r.next)
             list == Append(acc, r.val)
         IN  IF At(text, c, P("]")) THEN POk(JList(list), c + 1)
             ELSE IF At(text, c, P(",")) THEN ParseElements(text, c + 1, list)
             ELSE PFail

ParseValue(text, i) ==
    LET a == SkipWs(text, i) IN
    IF a > Len(text) THEN PFail
    ELSE IF text[a] = LBrace
    THEN LET b == SkipWs(text, a + 1) IN
         IF At(text, b, RBrace) THEN POk(JObj(EmptyDict), b + 1)
         ELSE ParseMembers(text, a + 1, EmptyDict)
    ELSE IF text[a] = P("[")
    THEN LET b == SkipWs(text, a + 1) IN
         IF At(text, b, P("]")) THEN POk(JList(<<>>), b + 1)
         ELSE ParseElements(text, a + 1, <<>>)
    ELSE IF text[a].t = "str" THEN POk(JStr(text[a].s), a + 1)
    ELSE IF text[a].t = "num" THEN POk(JNum(0), a + 1)
    ELSE IF text[a].t = "null" THEN POk(JNull, a + 1)
    ELSE PFail

\* json.loads(text): [ok, val]; ok = FALSE is json.JSONDecodeError
json_loads(text) ==
    LET r == ParseValue(text, 1) IN
    IF r.ok /\ SkipWs(text, r.next) > Len(text)
    THEN [ok |-> TRUE, val |-> r.val]
    ELSE [ok |-> FALSE, val |-> JNull]

\* the text handed to json.loads
ParsedText(llm_response) ==
    LET json_match == re_search(llm_response) IN
    IF json_match.found
    THEN SubSeq(llm_response, json_match.from, json_match.to)
    ELSE strip_text(llm_response)

\* Optional[Dict]: the value json.loads returns, None (JNull) when it
\* raises json.JSONDecodeError
parse_llm_output(llm_response) == json_loads(ParsedText(llm_response)).val

-----------------------------------------------------------------------------
(* CacheService on the TinyDB table 'structures', and                      *)
(* DirectoryStructureAgent.suggest_structure                               *)

\* a faulty variant, which the property must tell apart: the lookup never finds a record
get_cached_structure_Miss(table, cache_key) == JNull

\* table.search(Query().cache_key == cache_key): the matching documents in
\* the order of insertion; the structure of the first, None without one
get_cached_structure(table, cache_key) ==
    LET cached_result == { i \in 1..Len(table) : table[i].cache_key = cache_key } IN
    IF cached_result = {} THEN JNull
    ELSE table[CHOOSE i \in cached_result : \A j \in cached_result : i <= j].structure

\* table.insert({...}): one more document. The structure is stored as JSON
\* and read back as the same value.
cache_structure(table, cache_key, project_id, structure, now) ==
    Append(table, [cache_key |-> cache_key, project_id |-> project_id,
                   structure |-> structure, timestamp |-> now])

\* a faulty variant, which the property must tell apart: the parsed structure is stored before it is validated
suggest_tail_CacheFirst(prefs, llm_response) ==
    IF llm_response = <<>>
    THEN [outcome |-> "no_response", structure |-> JNull, result |-> JNull,
          store |-> FALSE]
    ELSE LET structure == parse_llm_output(llm_response) IN
         IF ~Truthy(structure)
         THEN [outcome |-> "parse_failed", structure |-> structure, result |-> JNull,
               store |-> FALSE]
         ELSE LET valid == validate_structure(structure) IN
              IF valid = "AttributeError"
              THEN [outcome |-> "exception", structure |-> structure, result |-> JNull,
                    store |-> TRUE,
                    stored |-> structure]
              ELSE IF valid = "False"
              THEN [outcome |-> "invalid", structure |-> structure, result |-> JNull,
                    store |-> TRUE,
                    stored |-> structure]
              ELSE [outcome |-> "ok", structure |-> structure,
                    result |-> apply_preferences(structure, prefs),
                    store |-> TRUE, stored |-> apply_preferences(structure, prefs)]

\* suggest_structure from the return of generate_structure on (agent.py
\* lines 68-93): what is returned (None is JNull), the message logged, and
\* whether cache_structure is reached; structure is what parse_llm_output
\* returned. llm_response is <<>> for None or "".
suggest_tail(prefs, llm_response) ==
    IF llm_response = <<>>
    THEN [outcome |-> "no_response", structure |-> JNull, result |-> JNull,
          store |-> FALSE]
    ELSE LET structure == parse_llm_output(llm_response) IN
         IF ~Truthy(structure)
         THEN [outcome |-> "parse_failed", structure |-> structure, result |-> JNull,
               store |-> FALSE]
         ELSE LET valid == validate_structure(structure) IN
              IF valid = "AttributeError"
              THEN [outcome |-> "exception", structure |-> structure, result |-> JNull,
                    store |-> FALSE]
              ELSE IF valid = "False"
              THEN [outcome |-> "invalid", structure |-> structure, result |-> JNull,
                    store |-> FALSE]
              ELSE [outcome |-> "ok", structure |-> structure,
                    result |-> apply_preferences(structure, prefs),
                    store |-> TRUE, stored |-> apply_preferences(structure, prefs)]

\* utils.build_prompt: the f-string, as the four values put into it.
\* preferences_text and similar_examples are empty ("" in the code) when
\* prefs is None and when similar_repos is empty.
build_prompt(project_desc, tech_stack, prefs, similar_repos) ==
    [project_desc      |-> project_desc,
     tech_stack        |-> tech_stack,
     preferences_text  |-> IF prefs.some THEN <<prefs>> ELSE <<>>,
     similar_examples  |-> similar_repos]

\* the similarity service fails in this call: no model was loaded, or
\* encoding or scoring raises
SimilarityFails(sim) == ~sim.sentence_model \/ sim.raises

\* a faulty variant, which the property must tell apart: the exception of
\* the embedding model is not caught in find_similar_repos
find_similar_repos_call_Raises(sim) ==
    [raised        |-> sim.sentence_model /\ sim.raises,
     similar_repos |-> find_similar_repos(sim.sentence_model, sim.scores,
                                          sim.raises, top_k_default)]

\* agent.py lines 59-61: the call of find_similar_repos with the default
\* top_k. Every path of find_similar_repos returns (services.py 86-87,
\* 103, 105-107), so nothing is raised into suggest_structure.
find_similar_repos_call(sim) ==
    [raised        |-> FALSE,
     similar_repos |-> find_similar_repos(sim.sentence_model, sim.scores,
                                          sim.raises, top_k_default)]

Procs == {1, 2}
MaxCalls == 3

Idle == [pc |-> "idle"]

\* some earlier call with these arguments has returned / returned a structure
ReturnedBefore(req) == \E r \in returned : r.req = req
SucceededBefore(req) == \E r \in returned : r.req = req /\ r.ok

\* agent.py lines 47-67: the key, the lookup, and on a miss the ranking,
\* the prompt and the request sent to the generation service.
\* sim: what the similarity service does during this call. similarity
\* records whether the service was called and whether it failed.
Call(p, req, sim) ==
    /\ calls[p].pc = "idle"
    /\ started < MaxCalls
    /\ started' = started + 1
    /\ LET cache_key     == make_cache_key(req.project_desc, req.tech_stack, req.prefs)
           cached_result == get_cached_structure(cache, cache_key)
       IN  IF Truthy(cached_result)
           THEN /\ last' = [req |-> req, cache_key |-> cache_key,
                            after_any |-> ReturnedBefore(req),
                            after_ok |-> SucceededBefore(req),
                            similarity |-> "not_called",
                            generated |-> FALSE, llm_response |-> <<>>,
                            structure |-> JNull,
                            outcome |-> "cached", result |-> cached_result]
                /\ returned' = returned \cup {[req |-> req, ok |-> TRUE]}
                /\ calls' = calls
           ELSE \E r \in {find_similar_repos_call(sim)} :
                IF r.raised
                THEN \* except Exception: return None (agent.py 91-93)
                     /\ last' = [req |-> req, cache_key |-> cache_key,
                                 after_any |-> ReturnedBefore(req),
                                 after_ok |-> SucceededBefore(req),
                                 similarity |-> "failed",
                                 generated |-> FALSE, llm_response |-> <<>>,
                                 structure |-> JNull,
                                 outcome |-> "exception", result |-> JNull]
                     /\ returned' = returned \cup {[req |-> req, ok |-> FALSE]}
                     /\ calls' = calls
                ELSE /\ calls' = [calls EXCEPT ![p] =
                            [pc |-> "awaiting", req |-> req, cache_key |-> cache_key,
                             after_any |-> ReturnedBefore(req),
                             after_ok |-> SucceededBefore(req),
                             similarity |-> IF SimilarityFails(sim)
                                            THEN "failed" ELSE "ranked",
                             similar_repos |-> r.similar_repos,
                             prompt |-> build_prompt(req.project_desc, req.tech_stack,
                                                     req.prefs, r.similar_repos)]]
                     /\ UNCHANGED <<last, returned>>
    /\ UNCHANGED <<cache, clock, harnessVars>>

\* agent.py lines 67-93: generate_structure returns llm_response (<<>> for
\* None), and the call runs to its return
Respond(p, llm_response) ==
    /\ calls[p].pc = "awaiting"
    /\ \E c \in {calls[p]} : \E t \in {suggest_tail(c.req.prefs, llm_response)} :
           /\ cache' = IF t.store
                       THEN cache_structure(cache, c.cache_key, c.req.project_id,
                                            t.stored, clock)
                       ELSE cache
           /\ clock' = IF t.store THEN clock + 1 ELSE clock
           /\ last' = [req |-> c.req, cache_key |-> c.cache_key,
                       after_any |-> c.after_any, after_ok |-> c.after_ok,
                       similarity |-> c.similarity,
                       generated |-> TRUE, llm_response |-> llm_response,
                       structure |-> t.structure,
                       outcome |-> t.outcome, result |-> t.result]
           /\ returned' = returned \cup {[req |-> c.req, ok |-> t.outcome = "ok"]}
    /\ calls' = [calls EXCEPT ![p] = Idle]
    /\ UNCHANGED <<started, harnessVars>>

-----------------------------------------------------------------------------
(* The inputs *)

\* all sequences over S of length at most n
SeqsUpTo(S, n) == UNION { [1..m -> S] : m \in 0..n }

\* JSON text, as tokens
Pair(key, valueText) == <<Str(key), P(":")>> \o valueText
RECURSIVE Joined(_)
Joined(texts) ==
    IF texts = <<>> THEN <<>>
    ELSE IF Len(texts) = 1 THEN texts[1]
    ELSE texts[1] \o <<P(","), Ws(" ")>> \o Joined(Tail(texts))
ObjText(pairs) == <<LBrace>> \o Joined(pairs) \o <<RBrace>>
ListText(texts) == <<P("[")>> \o Joined(texts) \o <<P("]")>>
FileText(n) == ObjText(<<Pair("type", <<Str("file")>>), Pair("name", <<Str(n)>>)>>)
FolderText(n, children) ==
    ObjText(<<Pair("type", <<Str("folder")>>), Pair("name", <<Str(n)>>),
              Pair("children", ListText(children))>>)
StructureText(n, tops) ==
    ObjText(<<Pair("name", <<Str(n)>>), Pair("structure", ListText(tops))>>)

\* what the generation service may answer
GoodText ==
    StructureText("x", <<FileText("README.md"), FileText(".gitignore"),
                         FolderText("src", <<>>)>>)
ProseText ==
    <<Word("Here:"), Ws("\n")>>
    \o StructureText("y", <<FileText(".gitignore"), FileText("README.md"),
                            FileText("Dockerfile")>>)
    \o <<Ws("\n"), Word("Enjoy!")>>
NotJsonText == <<Word("not"), Ws(" "), Word("json")>>
EmptyObjectText == <<LBrace, RBrace>>
NestedOnlyText ==
    StructureText("x", <<FileText(".gitignore"),
                         FolderText("docs", <<FileText("README.md")>>)>>)
FolderNamedText ==
    StructureText("x", <<FolderText("README.md", <<>>), FileText(".gitignore")>>)
BadEntryText ==
    StructureText("x", <<FileText("README.md"), FileText(".gitignore"),
                         <<Str("src")>> >>)
NoResponse == <<>>

Responses ==
    {NoResponse, GoodText, ProseText, NotJsonText, EmptyObjectText,
     NestedOnlyText, FolderNamedText, BadEntryText}

\* the callers' requests: "Ab" with R, n; " aB" with "N ", r (the same
\* request respelled); and the first with preferences
DockerPrefs == Prefs(TRUE, TRUE, TRUE, TRUE, <<"docs", "docs">>, TRUE)
Requests ==
    { [project_id |-> "p1", project_desc |-> <<65, 98>>,
       tech_stack |-> << <<82>>, <<110>> >>, prefs |-> NoPrefs],
      [project_id |-> "p2", project_desc |-> <<32, 97, 66>>,
       tech_stack |-> << <<78, 32>>, <<114>> >>, prefs |-> NoPrefs],
      [project_id |-> "p1", project_desc |-> <<65, 98>>,
       tech_stack |-> << <<82>>, <<110>> >>, prefs |-> DockerPrefs] }

\* what the similarity service may do in a call, on the two example_repos
SimCases ==
    { [sentence_model |-> TRUE,  raises |-> FALSE, scores |-> <<0, 1>>],
      [sentence_model |-> TRUE,  raises |-> TRUE,  scores |-> <<0, 0>>],
      [sentence_model |-> FALSE, raises |-> FALSE, scores |-> <<0, 0>>] }

-----------------------------------------------------------------------------
(* suggest_structure, called concurrently *)

OrchInit ==
    /\ cache = <<>>
    /\ calls = [p \in Procs |-> Idle]
    /\ clock = 0
    /\ started = 0
    /\ returned = {}
    /\ last = [outcome |-> "none"]

KeyOff  == kreq = <<>> /\ kvar = <<>> /\ kkeys = <<>>
ValOff  == vcand = JNull /\ vres = [done |-> FALSE]
PrefOff == pin = <<>> /\ pout = <<>>
TreeOff == tin = JNull /\ tout = [done |-> FALSE]
RankOff == rin = <<>> /\ rout = [done |-> FALSE]
TextOff == prefs_text = <<>> /\ pprefs = [done |-> FALSE]

Init == OrchInit /\ KeyOff /\ ValOff /\ PrefOff /\ TreeOff /\ RankOff /\ TextOff

Next ==
    \/ \E p \in Procs, req \in Requests, sim \in SimCases : Call(p, req, sim)
    \/ \E p \in Procs, llm_response \in Responses : Respond(p, llm_response)

Spec == Init /\ [][Next]_vars

-----------------------------------------------------------------------------
(* make_cache_key on a request and on respellings of it *)

MaxPad == 1

\* "We" with R, n, without and with preferences; "a B" with b, A, ab
KeyRequests ==
    { [project_desc |-> <<87, 101>>, tech_stack |-> << <<82>>, <<110>> >>, prefs |-> pr] :
        pr \in {NoPrefs, DockerPrefs} }
    \cup { [project_desc |-> <<97, 32, 66>>,
            tech_stack |-> << <<98>>, <<65>>, <<97, 98>> >>, prefs |-> NoPrefs] }

KeyOf(req) == make_cache_key(req.project_desc, req.tech_stack, req.prefs)

IsLetter(c) == c \in 65..90 \/ c \in 97..122
ToggleChar(c) == IF c \in 65..90 THEN c + 32 ELSE IF c \in 97..122 THEN c - 32 ELSE c
ToggleAt(str, i) == [str EXCEPT ![i] = ToggleChar(str[i])]

RECURSIVE SumLen(_)
SumLen(strs) == IF strs = <<>> THEN 0 ELSE Len(Head(strs)) + SumLen(Tail(strs))
TextLen(req) == Len(req.project_desc) + SumLen(req.tech_stack)

\* whitespace put before or after str
Padded(str, front, c) == IF front THEN <<c>> \o str ELSE Append(str, c)

Respelled(req) ==
    /\ kvar' = req
    /\ kkeys' = <<KeyOf(kreq), KeyOf(req)>>
    /\ UNCHANGED <<kreq, orchVars, valVars, prefVars, treeVars, rankVars, textVars>>

KeyInit ==
    /\ kreq \in KeyRequests
    /\ kvar = kreq
    /\ kkeys = <<KeyOf(kreq), KeyOf(kreq)>>

\* the case of one letter of the description changed
DescCase ==
    \E i \in 1..Len(kvar.project_desc) :
        /\ IsLetter(kvar.project_desc[i])
        /\ Respelled([kvar EXCEPT !.project_desc = ToggleAt(@, i)])

\* whitespace added before or after the description
DescPad ==
    \E front \in BOOLEAN, c \in {9, 32} :
        /\ TextLen(kvar) < TextLen(kreq) + MaxPad
        /\ Respelled([kvar EXCEPT !.project_desc = Padded(@, front, c)])

\* the case of one letter of a tech-stack entry changed
TechCase ==
    \E n \in 1..Len(kvar.tech_stack) : \E i \in 1..Len(kvar.tech_stack[n]) :
        /\ IsLetter(kvar.tech_stack[n][i])
        /\ Respelled([kvar EXCEPT !.tech_stack[n] = ToggleAt(@, i)])

\* whitespace added before or after a tech-stack entry
TechPad ==
    \E n \in 1..Len(kvar.tech_stack), front \in BOOLEAN, c \in {9, 32} :
        /\ TextLen(kvar) < TextLen(kreq) + MaxPad
        /\ Respelled([kvar EXCEPT !.tech_stack[n] = Padded(@, front, c)])

\* two tech-stack entries exchanged
TechSwap ==
    \E m \in 1..Len(kvar.tech_stack), n \in 1..Len(kvar.tech_stack) :
        /\ m < n
        /\ Respelled([kvar EXCEPT !.tech_stack =
                        [@ EXCEPT ![m] = kvar.tech_stack[n], ![n] = kvar.tech_stack[m]]])

InitKey == OrchInit /\ KeyInit /\ ValOff /\ PrefOff /\ TreeOff /\ RankOff /\ TextOff
NextKey == DescCase \/ DescPad \/ TechCase \/ TechPad \/ TechSwap
SpecKey == InitKey /\ [][NextKey]_vars

-----------------------------------------------------------------------------
(* validate_structure on candidates *)

MaxTop == 3

ValItems ==
    { FileNode("README.md"), FileNode(".gitignore"), FileNode("main.py"),
      FolderNode("README.md", <<>>),
      FolderNode("src", <<FileNode("README.md"), FileNode(".gitignore")>>),
      JObj([name |-> JStr(".gitignore")]),
      JStr("README.md") }

Candidates ==
    { JNull, JStr("x"), JList(<<FileNode("README.md"), FileNode(".gitignore")>>),
      JObj(EmptyDict),
      JObj([name |-> JStr("app")]),
      JObj([structure |-> JList(<<FileNode("README.md"), FileNode(".gitignore")>>)]),
      JObj([name |-> JStr("app"), structure |-> JStr("README.md")]),
      JObj([name |-> JStr("app"),
            structure |-> JObj([a |-> FileNode("README.md"),
                                b |-> FileNode(".gitignore")])]) }
    \cup { Structure("app", tops) : tops \in SeqsUpTo(ValItems, MaxTop) }

ValInit == vcand \in Candidates /\ vres = [done |-> FALSE]

Validate ==
    /\ ~vres.done
    /\ vres' = [done |-> TRUE, value |-> validate_structure(vcand)]
    /\ UNCHANGED <<vcand, orchVars, keyVars, prefVars, treeVars, rankVars, textVars>>

InitValidate == OrchInit /\ KeyOff /\ ValInit /\ PrefOff /\ TreeOff /\ RankOff /\ TextOff
NextValidate == Validate
SpecValidate == InitValidate /\ [][NextValidate]_vars

-----------------------------------------------------------------------------
(* apply_preferences, applied once and then again to its own result *)

PrefItems ==
    { FileNode("README.md"), FileNode(".gitignore"), FileNode("Dockerfile"),
      FolderNode("docs", <<FileNode("index.md")>>), FolderNode(".github", <<>>) }

PrefChoices ==
    {NoPrefs}
    \cup { Prefs(TRUE, TRUE, docker, ci_cd, folders, TRUE) :
             docker \in BOOLEAN, ci_cd \in BOOLEAN,
             folders \in {<<>>, <<"docs">>, <<"api", "api">>, <<"docs", "api">>} }

PrefInit ==
    /\ pin \in [structure : { Structure("app", tops) : tops \in SeqsUpTo(PrefItems, MaxTop) },
                prefs : PrefChoices]
    /\ pout = <<>>

ApplyFirst ==
    /\ pout = <<>>
    /\ pout' = <<apply_preferences(pin.structure, pin.prefs)>>
    /\ UNCHANGED <<pin, orchVars, keyVars, valVars, treeVars, rankVars, textVars>>

ApplyAgain ==
    /\ Len(pout) = 1
    /\ pout' = Append(pout, apply_preferences(pout[1], pin.prefs))
    /\ UNCHANGED <<pin, orchVars, keyVars, valVars, treeVars, rankVars, textVars>>

InitPrefs == OrchInit /\ KeyOff /\ ValOff /\ PrefInit /\ TreeOff /\ RankOff /\ TextOff
NextPrefs == ApplyFirst \/ ApplyAgain
SpecPrefs == InitPrefs /\ [][NextPrefs]_vars

-----------------------------------------------------------------------------
(* structure_to_tree on structures of up to MaxNodes nodes *)

MaxNodes == 5

RECURSIVE ForestsOf(_)
\* the node sequences with n nodes in all: a node is a file, or a folder
\* with a sequence of children
TreesOf(n) ==
    IF n = 1 THEN {FileNode("a.txt"), FolderNode("src", <<>>)}
    ELSE { FolderNode("src", children) : children \in ForestsOf(n - 1) }
ForestsOf(n) ==
    IF n = 0 THEN {<<>>}
    ELSE UNION { { <<t>> \o rest : t \in TreesOf(m), rest \in ForestsOf(n - m) } :
                   m \in 1..n }

TreeInputs ==
    {JNull, JObj(EmptyDict), JObj([name |-> JStr("app")])}
    \cup UNION { { Structure("app", tops) : tops \in ForestsOf(n) } : n \in 0..MaxNodes }

TreeInit == tin \in TreeInputs /\ tout = [done |-> FALSE]

Render ==
    /\ ~tout.done
    /\ tout' = [done |-> TRUE, lines |-> structure_to_tree(tin)]
    /\ UNCHANGED <<tin, orchVars, keyVars, valVars, prefVars, rankVars, textVars>>

InitTree == OrchInit /\ KeyOff /\ ValOff /\ PrefOff /\ TreeInit /\ RankOff /\ TextOff
NextTree == Render
SpecTree == InitTree /\ [][NextTree]_vars

-----------------------------------------------------------------------------
(* find_similar_repos on catalogs of up to MaxCatalog entries *)

MaxCatalog == 3
MaxScore == 2
MaxTopK == 3

RankInit ==
    /\ rin \in [sentence_model : BOOLEAN, raises : BOOLEAN,
                scores : SeqsUpTo(0..MaxScore, MaxCatalog), top_k : 0..MaxTopK]
    /\ rout = [done |-> FALSE]

Rank ==
    /\ ~rout.done
    /\ rout' = [done |-> TRUE,
                repos |-> find_similar_repos(rin.sentence_model, rin.scores,
                                             rin.raises, rin.top_k)]
    /\ UNCHANGED <<rin, orchVars, keyVars, valVars, prefVars, treeVars, textVars>>

InitRank == OrchInit /\ KeyOff /\ ValOff /\ PrefOff /\ TreeOff /\ RankInit /\ TextOff
NextRank == Rank
SpecRank == InitRank /\ [][NextRank]_vars

-----------------------------------------------------------------------------
(* parse_preferences on texts *)

MaxChunks == 5

\* the pieces texts are made of: 'folder:', 'custom:', ' ', '\n', 'a', 'B',
\* 'Docker'
PrefChunks ==
    { folder_prefix, custom_prefix, <<32>>, <<NewLine>>, <<97>>, <<66>>,
      <<68, 111, 99, 107, 101, 114>> }

RECURSIVE Concat(_)
Concat(pieces) ==
    IF pieces = <<>> THEN <<>> ELSE Head(pieces) \o Concat(Tail(pieces))

PrefExamples ==
    { \* 'folder: a:B ': the value holds a colon
      <<102, 111, 108, 100, 101, 114, 58, 32, 97, 58, 66, 32>>,
      \* 'Folder:a': the prefix in another case
      <<70, 111, 108, 100, 101, 114, 58, 97>>,
      \* 'x folder:a': the prefix is not at the start of the line
      <<120, 32, 102, 111, 108, 100, 101, 114, 58, 97>>,
      \* 'folder :a': a space before the colon
      <<102, 111, 108, 100, 101, 114, 32, 58, 97>>,
      \* '\tcustom:\r\n': an empty value, tab and CR LF
      <<9, 99, 117, 115, 116, 111, 109, 58, 13, 10>>,
      \* 'docs, tests\nfolder:api\ncustom:api': keywords, and a duplicate value
      <<100, 111, 99, 115, 44, 32, 116, 101, 115, 116, 115, 10,
        102, 111, 108, 100, 101, 114, 58, 97, 112, 105, 10, 99,
        117, 115, 116, 111, 109, 58, 97, 112, 105>>,
      \* 'Documentation and GitHub Actions': the two long keywords
      <<68, 111, 99, 117, 109, 101, 110, 116, 97, 116, 105, 111,
        110, 32, 97, 110, 100, 32, 71, 105, 116, 72, 117, 98, 32,
        65, 99, 116, 105, 111, 110, 115>> }

PrefTexts ==
    { Concat(pieces) : pieces \in SeqsUpTo(PrefChunks, MaxChunks) } \cup PrefExamples

TextInit == prefs_text \in PrefTexts /\ pprefs = [done |-> FALSE]

ParsePreferences ==
    /\ ~pprefs.done
    /\ pprefs' = [done |-> TRUE, prefs |-> parse_preferences(prefs_text)]
    /\ UNCHANGED <<prefs_text, orchVars, keyVars, valVars, prefVars, treeVars, rankVars>>

InitText == OrchInit /\ KeyOff /\ ValOff /\ PrefOff /\ TreeOff /\ RankOff /\ TextInit
NextText == ParsePreferences
SpecText == InitText /\ [][NextText]_vars

-----------------------------------------------------------------------------
(* suggest_structure, called once, on any short response *)

MaxTextLen == 6

TextTokens == {LBrace, RBrace, Str("a"), P(":"), Word("x"), Ws(" ")}

\* "Here is your structure:\n{"name":"x","structure":[]}\nEnjoy!"
ExampleText ==
    <<Word("Here"), Ws(" "), Word("is"), Ws(" "), Word("your"), Ws(" "),
      Word("structure"), P(":"), Ws("\n")>>
    \o <<LBrace, Str("name"), P(":"), Str("x"), P(","), Str("structure"), P(":"),
          P("["), P("]"), RBrace>>
    \o <<Ws("\n"), Word("Enjoy!")>>

ParseTexts == SeqsUpTo(TextTokens, MaxTextLen) \cup Responses \cup {ExampleText}

ParseRequest ==
    [project_id |-> "p1", project_desc |-> <<65, 98>>,
     tech_stack |-> << <<82>>, <<110>> >>, prefs |-> NoPrefs]
NoSimilarity == [sentence_model |-> FALSE, raises |-> FALSE, scores |-> <<0, 0>>]

FirstCall == started = 0 /\ Call(1, ParseRequest, NoSimilarity)
AnyResponse ==
    /\ calls[1].pc = "awaiting"
    /\ \E llm_response \in ParseTexts : Respond(1, llm_response)

NextParse == FirstCall \/ AnyResponse
SpecParse == Init /\ [][NextParse]_vars

-----------------------------------------------------------------------------
(* The claims *)

\* p's call returns in this step
Returns(p) == calls[p].pc = "awaiting" /\ calls'[p].pc = "idle"

\* the structure of the first record under cache_key is structure
FirstRecordHolds(cache_key, structure) ==
    \E i \in 1..Len(cache) :
        /\ cache[i].cache_key = cache_key
        /\ cache[i].structure = structure
        /\ \A j \in 1..(i - 1) : cache[j].cache_key # cache_key

\* C1 as stated: a call of suggest_structure made after a call with
\* identical arguments has returned makes no generation call (the two calls
\* invoke the generation service once) and returns the stored structure.
C1_SecondCallNeverGenerates ==
    /\ \A p \in Procs : calls[p].pc = "awaiting" => ~calls[p].after_any
    /\ (last.outcome # "none" /\ last.after_any) =>
          /\ ~last.generated
          /\ FirstRecordHolds(last.cache_key, last.result)

\* C1 amended: a call of suggest_structure made after a call with identical
\* arguments has returned a structure makes no generation call and returns
\* the structure of the first record stored under the key.
C1_SecondCallAfterSuccessHitsCache ==
    /\ \A p \in Procs : calls[p].pc = "awaiting" => ~calls[p].after_ok
    /\ (last.outcome # "none" /\ last.after_ok) =>
          /\ ~last.generated
          /\ last.outcome = "cached"
          /\ FirstRecordHolds(last.cache_key, last.result)

C1_Witness ==
    /\ last.outcome = "cached"
    /\ last.after_ok
    /\ Len(cache) = 1

\* C2: a step in which a call returns a failure leaves the cache records as
\* they were, and the cache changes only in the step in which a call
\* returns a structure, by one record holding that structure.
C2_Step ==
    /\ \A p \in Procs :
          (Returns(p) /\ last'.outcome # "ok") => cache' = cache
    /\ cache' # cache =>
          /\ \E p \in Procs : Returns(p)
          /\ last'.outcome = "ok"
          /\ Len(cache') = Len(cache) + 1
          /\ SubSeq(cache', 1, Len(cache)) = cache
          /\ cache'[Len(cache')].structure = last'.result
C2_CacheWrittenOnlyOnSuccess == [][C2_Step]_vars

C2_Witness ==
    /\ last.outcome = "exception"
    /\ Len(cache) = 1

\* what the claim calls a structure that passes validation
IsValidStructure(x) ==
    /\ x.k = "obj"
    /\ "name" \in DOMAIN x.v
    /\ "structure" \in DOMAIN x.v
    /\ x.v["structure"].k = "list"
    /\ \A n \in {"README.md", ".gitignore"} :
          \E i \in 1..Len(x.v["structure"].v) :
              LET item == x.v["structure"].v[i] IN
              /\ item.k = "obj"
              /\ "type" \in DOMAIN item.v /\ item.v["type"] = JStr("file")
              /\ "name" \in DOMAIN item.v /\ item.v["name"] = JStr(n)

\* C3: every result returned to a caller is None or a structure that
\* passes validation, a failure returns None, and every cached structure
\* passes validation.
C3_OnlyValidStructures ==
    /\ last.outcome \in {"ok", "cached"} => IsValidStructure(last.result)
    /\ last.outcome \in {"no_response", "parse_failed", "invalid", "exception"} =>
          last.result = JNull
    /\ \A i \in 1..Len(cache) : IsValidStructure(cache[i].structure)

C3_Witness ==
    /\ last.outcome = "cached"
    /\ last.req.prefs.some
    /\ Len(cache) >= 2

\* C4: whatever respelling of a request is made by permuting the tech
\* stack, changing the case or the surrounding whitespace of its entries,
\* or changing the case or the leading and trailing whitespace of the
\* description, make_cache_key gives the key of the request as first given.
C4_KeyInvariantUnderRespelling == kkeys[1] = kkeys[2]

\* the spec's example: ["R", "n"] respelled as ["N", "r"], and the
\* description respelled too
C4_Witness ==
    /\ kreq.tech_stack = << <<82>>, <<110>> >>
    /\ kvar.tech_stack = << <<78>>, <<114>> >>
    /\ kvar.project_desc = <<119, 69, 32>>
    /\ kreq.prefs.some

\* a candidate with a top-level sequence that lacks a file README.md or a
\* file .gitignore
LacksRequiredFile(x) ==
    /\ x.k = "obj"
    /\ "name" \in DOMAIN x.v
    /\ "structure" \in DOMAIN x.v
    /\ x.v["structure"].k = "list"
    /\ ~IsValidStructure(x)

\* C5 as stated: validate_structure returns false for every candidate
\* whose top-level sequence lacks a file README.md or a file .gitignore,
\* and returns true only for a mapping with 'name' and a list 'structure'
\* that holds both files at the top level.
C5_ValidateDecidesRequiredFiles ==
    vres.done =>
        /\ LacksRequiredFile(vcand) => vres.value = "False"
        /\ vres.value = "True" => IsValidStructure(vcand)

\* the candidate {"name": "app", "structure": ["README.md"]}: its
\* top-level sequence holds no file, and item.get raises on the string
C5_Witness ==
    /\ vres.done
    /\ vcand = Structure("app", <<JStr("README.md")>>)
    /\ LacksRequiredFile(vcand)
    /\ vres.value = "AttributeError"

\* C5 where the code meets it: a candidate that is not a mapping with
\* 'name' and a list 'structure', or whose top-level entries are all
\* mappings, is accepted exactly when it holds both required files.
AllEntriesMappings(x) ==
    ( /\ x.k = "obj"
      /\ "name" \in DOMAIN x.v
      /\ "structure" \in DOMAIN x.v
      /\ x.v["structure"].k = "list" )
    => \A i \in 1..Len(x.v["structure"].v) : x.v["structure"].v[i].k = "obj"
C5_ValidateOnMappingEntries ==
    (vres.done /\ AllEntriesMappings(vcand)) =>
        vres.value = (IF IsValidStructure(vcand) THEN "True" ELSE "False")

TopOf(x) == x.v["structure"].v
CountName(list, n) ==
    Cardinality({ i \in 1..Len(list) : Get(list[i], "name") = JStr(n) })
NamesAsked == {"docs", "api", "Dockerfile", "docker-compose.yml", ".dockerignore",
               ".github", "README.md", ".gitignore"}

\* C6: applying the same Preferences to the already-augmented structure
\* changes nothing, and after it no name occurs more often at the top level
\* than it did in the structure given (or once, if it did not occur): with
\* include_docker and at most one Dockerfile given there is exactly one.
C6_ApplyTwiceAddsNothing ==
    Len(pout) = 2 =>
        /\ pout[2] = pout[1]
        /\ \A n \in NamesAsked :
              CountName(TopOf(pout[2]), n) <=
                  (IF CountName(TopOf(pin.structure), n) > 1
                   THEN CountName(TopOf(pin.structure), n) ELSE 1)
        /\ ( /\ pin.prefs.some
             /\ pin.prefs.include_docker
             /\ CountName(TopOf(pin.structure), "Dockerfile") <= 1 )
           => CountName(TopOf(pout[2]), "Dockerfile") = 1

C6_Witness ==
    /\ Len(pout) = 2
    /\ IsValidStructure(pin.structure)
    /\ pin.prefs.some
    /\ pin.prefs.include_docker
    /\ pin.prefs.include_ci_cd
    /\ pin.prefs.custom_folders = <<"api", "api">>
    /\ CountName(TopOf(pin.structure), "Dockerfile") = 0
    /\ Len(TopOf(pout[2])) = Len(TopOf(pin.structure)) + 5

\* b is a with entries added after its top-level sequence, and nothing else
Extends(a, b) ==
    /\ b.k = "obj"
    /\ DOMAIN b.v = DOMAIN a.v
    /\ b.v["name"] = a.v["name"]
    /\ b.v["structure"].k = "list"
    /\ Len(TopOf(b)) >= Len(TopOf(a))
    /\ SubSeq(TopOf(b), 1, Len(TopOf(a))) = TopOf(a)

\* C7: the top-level sequence given to apply_preferences is an unchanged
\* prefix of the one it returns, the root name is unchanged, and without
\* Preferences the structure is returned as given.
C7_ApplyOnlyAppends ==
    /\ Len(pout) >= 1 =>
          /\ Extends(pin.structure, pout[1])
          /\ ~pin.prefs.some => pout[1] = pin.structure
    /\ Len(pout) = 2 => Extends(pout[1], pout[2])

C7_Witness ==
    /\ Len(pout) = 1
    /\ Len(TopOf(pin.structure)) = 3
    /\ Len(TopOf(pout[1])) > 3
    /\ HasName(TopOf(pin.structure), ".github")

\* the children of a node of the data model: none for a file
Kids(node) ==
    IF "children" \in DOMAIN node.v THEN node.v["children"].v ELSE <<>>

\* the nodes under a sequence, each named by its path of positions
RECURSIVE PathsOf(_)
PathsOf(items) ==
    UNION { {<<i>>} \cup { <<i>> \o q : q \in PathsOf(Kids(items[i])) } :
              i \in 1..Len(items) }

\* the sequence in which the node at the first d positions of path lies
RECURSIVE SiblingsAt(_, _, _)
SiblingsAt(items, path, d) ==
    IF d = 1 THEN items
    ELSE SiblingsAt(Kids(items[path[1]]), Tail(path), d - 1)

\* depth-first order: a node before its descendants, then by position
Before(p, q) ==
    \/ Len(p) < Len(q) /\ SubSeq(q, 1, Len(p)) = p
    \/ \E n \in 1..Len(p) :
          /\ n <= Len(q)
          /\ SubSeq(p, 1, n - 1) = SubSeq(q, 1, n - 1)
          /\ p[n] < q[n]

\* the line the claim gives the node at path
LineOf(items, path) ==
    LET depth   == Len(path)
        lastAt(d) == path[d] = Len(SiblingsAt(items, path, d))
        node    == SiblingsAt(items, path, depth)[path[depth]]
        indent  == [d \in 1..(depth - 1) |-> IF lastAt(d) THEN "    " ELSE "|   "]
        branch  == IF lastAt(depth) THEN "+-- " ELSE "|-- "
    IN  indent \o <<branch, node.v["name"].v>>
        \o (IF node.v["type"] = JStr("folder") THEN <<"/">> ELSE <<>>)

\* C8: structure_to_tree returns "Invalid structure" for None and for the
\* empty mapping; otherwise the first line is "{name}/" and the nodes give
\* one line each, in depth-first order, each line made of its ancestors'
\* indentation ("    " under a last sibling, "|   " otherwise), its branch
\* ("+-- " for a last sibling, "|-- " otherwise), its name, and "/" for a
\* folder.
C8_TreeLines ==
    tout.done =>
        IF tin.k = "null" \/ tin = JObj(EmptyDict)
        THEN tout.lines = << <<"Invalid structure">> >>
        ELSE LET items == IF "structure" \in DOMAIN tin.v THEN TopOf(tin) ELSE <<>>
                 paths == PathsOf(items)
             IN  /\ Len(tout.lines) = 1 + Cardinality(paths)
                 /\ tout.lines[1] = <<tin.v["name"].v, "/">>
                 /\ \A p \in paths :
                       tout.lines[2 + Cardinality({ q \in paths : Before(q, p) })]
                           = LineOf(items, p)

\* the spec's example, and a line under a last folder inside a folder
\* that is not last
C8_Witness ==
    /\ tout.done
    /\ \/ tin = Structure("app", <<FileNode("a.txt"),
                                  FolderNode("src", <<FileNode("a.txt")>>)>>)
          /\ tout.lines = << <<"app", "/">>, <<"|-- ", "a.txt">>,
                             <<"+-- ", "src", "/">>, <<"    ", "+-- ", "a.txt">> >>
       \/ \E i \in 1..Len(tout.lines) :
             /\ Len(tout.lines[i]) = 4
             /\ tout.lines[i][1] = "|   "
             /\ tout.lines[i][2] = "    "
    /\ Len(tout.lines) = 4

\* the first '{' and the last '}' of a text
FirstOpen(text) ==
    CHOOSE i \in 1..Len(text) :
        text[i] = LBrace /\ \A j \in 1..(i - 1) : text[j] # LBrace
LastClose(text) ==
    CHOOSE i \in 1..Len(text) :
        text[i] = RBrace /\ \A j \in (i + 1)..Len(text) : text[j] # RBrace
HasSpan(text) ==
    /\ \E i \in 1..Len(text) : text[i] = LBrace
    /\ \E i \in 1..Len(text) : text[i] = RBrace
    /\ FirstOpen(text) < LastClose(text)

\* C9: parse_llm_output parses the span from the first '{' to the last '}'
\* when there is one and the trimmed text otherwise; it returns the parsed
\* value when that is valid JSON, and None when it is not, and then
\* suggest_structure returns None and stores nothing. The spec's example
\* text parses to {"name": "x", "structure": []}.
C9_ParseSpanOrWholeText ==
    (last.outcome # "none" /\ last.llm_response # <<>>) =>
        LET text   == last.llm_response
            chosen == IF HasSpan(text)
                      THEN SubSeq(text, FirstOpen(text), LastClose(text))
                      ELSE strip_text(text)
            parsed == json_loads(chosen)
        IN  /\ parsed.ok => last.structure = parsed.val
            /\ ~parsed.ok =>
                  /\ last.structure = JNull
                  /\ last.outcome = "parse_failed"
                  /\ last.result = JNull
                  /\ cache = <<>>
            /\ text = ExampleText => last.structure = Structure("x", <<>>)
            /\ text = NotJsonText => last.outcome = "parse_failed"

\* JSON between prose is recovered: the spec's example text has been parsed
\* to {"name": "x", "structure": []}, which validation then turns down
C9_Witness ==
    /\ last.outcome = "invalid"
    /\ last.llm_response = ExampleText
    /\ HasSpan(last.llm_response)
    /\ last.structure = Structure("x", <<>>)

\* C10: find_similar_repos returns at most top_k catalog entries, by
\* descending score, entries of equal score in catalog order; when the
\* service works they are min(top_k, catalog size) entries and no entry
\* left out ranks before one returned.
C10_RankedTopK ==
    rout.done =>
        LET r  == rout.repos
            sc == rin.scores
            ranksBefore(a, b) == sc[a] > sc[b] \/ (sc[a] = sc[b] /\ a < b)
        IN  /\ Len(r) <= rin.top_k
            /\ \A i \in 1..Len(r) : r[i] \in 1..Len(sc)
            /\ \A i \in 1..Len(r) : \A j \in (i + 1)..Len(r) : ranksBefore(r[i], r[j])
            /\ (rin.sentence_model /\ ~rin.raises) =>
                  /\ Len(r) = (IF rin.top_k < Len(sc) THEN rin.top_k ELSE Len(sc))
                  /\ \A m \in 1..Len(sc) :
                        (\A i \in 1..Len(r) : r[i] # m) =>
                            \A i \in 1..Len(r) : ranksBefore(r[i], m)

\* two entries of equal score are returned, after one of a higher score
C10_Witness ==
    /\ rout.done
    /\ rin.scores = <<1, 2, 1>>
    /\ rin.top_k = 3
    /\ rout.repos = <<2, 1, 3>>

\* C11: when the similarity service fails in a call (no model loaded, or
\* an exception while encoding or scoring), find_similar_repos gives the
\* empty sequence, the prompt is built with it and the generation service
\* is called; the call then returns a structure exactly when the response
\* is not empty, parses to a non-empty value and passes validation, and
\* None otherwise.
C11_SimilarityFailureNeverAborts ==
    /\ \A p \in Procs :
          (calls[p].pc = "awaiting" /\ calls[p].similarity = "failed") =>
              /\ calls[p].similar_repos = <<>>
              /\ calls[p].prompt =
                     build_prompt(calls[p].req.project_desc, calls[p].req.tech_stack,
                                  calls[p].req.prefs, <<>>)
    /\ (last.outcome # "none" /\ last.similarity = "failed") =>
          /\ last.generated
          /\ LET structure == parse_llm_output(last.llm_response)
                 passes    == /\ last.llm_response # <<>>
                              /\ Truthy(structure)
                              /\ validate_structure(structure) = "True"
             IN  /\ last.outcome = "ok" <=> passes
                 /\ last.result = IF passes
                                  THEN apply_preferences(structure, last.req.prefs)
                                  ELSE JNull

\* a call in which the embedding model raised has returned a structure
C11_Witness ==
    /\ last.outcome = "ok"
    /\ last.similarity = "failed"
    /\ last.generated
    /\ last.result # JNull
    /\ \E p \in Procs :
          /\ calls[p].pc = "awaiting"
          /\ calls[p].similarity = "failed"
          /\ calls[p].prompt.similar_examples = <<>>

\* a line that, trimmed, starts with folder: or custom:
MatchesPattern(line) ==
    \E prefix \in {folder_prefix, custom_prefix} :
        /\ Len(strip(line)) >= Len(prefix)
        /\ \A i \in 1..Len(prefix) : strip(line)[i] = prefix[i]

\* its <value>: what follows the prefix in the trimmed line, trimmed
ValueOf(line) == strip(SubSeq(strip(line), 8, Len(strip(line))))

HasValue(line) == MatchesPattern(line) /\ ValueOf(line) # <<>>

\* the values of the lines chosen, in line order, duplicates kept
ValuesOf(lines) == [i \in 1..Len(lines) |-> ValueOf(lines[i])]

WhitespaceOnly(text) == \A i \in 1..Len(text) : text[i] \in Whitespace

\* C12 as stated: custom_folders is the values of all lines that match
\* folder:<value> or custom:<value>, trimmed, in line order, duplicates
\* kept; whitespace-only input gives the defaults.
C12_AllMatchingLines ==
    pprefs.done =>
        /\ pprefs.prefs.custom_folders =
               ValuesOf(SelectSeq(split(prefs_text, NewLine), MatchesPattern))
        /\ WhitespaceOnly(prefs_text) =>
               pprefs.prefs = [some |-> TRUE, include_docs |-> TRUE,
                               include_tests |-> TRUE, include_docker |-> FALSE,
                               include_ci_cd |-> FALSE, custom_folders |-> <<>>,
                               framework_specific |-> TRUE]

\* C12 amended: custom_folders is the values that are not empty of the
\* lines that match folder:<value> or custom:<value>, trimmed, in line
\* order, duplicates kept (a line 'folder:' with nothing or only whitespace
\* after the colon contributes nothing); whitespace-only input gives the
\* defaults.
C12_MatchingLinesWithValue ==
    pprefs.done =>
        /\ pprefs.prefs.custom_folders =
               ValuesOf(SelectSeq(split(prefs_text, NewLine), HasValue))
        /\ WhitespaceOnly(prefs_text) =>
               pprefs.prefs = [some |-> TRUE, include_docs |-> TRUE,
                               include_tests |-> TRUE, include_docker |-> FALSE,
                               include_ci_cd |-> FALSE, custom_folders |-> <<>>,
                               framework_specific |-> TRUE]

\* 'docs, tests\nfolder:api\ncustom:api' gives ['api', 'api']
C12_Witness ==
    /\ pprefs.done
    /\ prefs_text = <<100, 111, 99, 115, 44, 32, 116, 101, 115, 116, 115>> \o <<NewLine>>
                    \o <<102, 111, 108, 100, 101, 114, 58, 97, 112, 105>> \o <<NewLine>>
                    \o <<99, 117, 115, 116, 111, 109, 58, 97, 112, 105>>
    /\ pprefs.prefs.custom_folders = << <<97, 112, 105>>, <<97, 112, 105>> >>
    /\ pprefs.prefs.include_docs
    /\ ~pprefs.prefs.include_docker

\* C13 as stated: under any interleaving of concurrent calls of
\* suggest_structure the table never holds more than one record for the
\* same cache_key.
C13_OneRecordPerKey ==
    \A i, j \in 1..Len(cache) :
        cache[i].cache_key = cache[j].cache_key => i = j

\* two calls with the same key have both missed the cache and both stored
\* what they generated: two records under one key, with different
\* structures
C13_Witness ==
    /\ Len(cache) = 2
    /\ cache[1].cache_key = cache[2].cache_key
    /\ cache[1].project_id = cache[2].project_id
    /\ cache[1].structure # cache[2].structure
    /\ last.generated
    /\ last.outcome = "ok"

\* what does hold of the table: a record once inserted stays as it is and
\* where it is, so a lookup keeps returning the first record of a key
C13_RecordsNeverReplaced ==
    [][Len(cache') >= Len(cache) /\ SubSeq(cache', 1, Len(cache)) = cache]_vars

=============================================================================
